---- MODULE Spec2Model ----
(***************************************************************************)
(* Post-bid tracking (src/post_bid_tracking_v2.py): the lifecycle of one   *)
(* PostBidRecord under the transition functions mark_awaiting_sean,        *)
(* mark_ready_to_submit, mark_submitted, mark_receipt_confirmed,           *)
(* mark_followup_sent, record_gc_response and close_bid_won / _lost /      *)
(* _no_response, with the wall clock read by datetime.now().               *)
(*                                                                         *)
(* Time is counted in ticks, TicksPerDay ticks to the calendar day.  An    *)
(* Optional[T] value is <<>> (None) or <<v>>.  Every raise in the source   *)
(* is a ValueError; the model names each raise site by the error of the    *)
(* taxonomy its message belongs to.  Timestamps stay far from datetime.max,*)
(* so that submission_dt + timedelta(days=28) is always representable.     *)
(***************************************************************************)
EXTENDS Integers, Sequences, FiniteSets, TLC

VARIABLES bid, now, op, args, err

vars == <<bid, now, op, args, err>>

\* ------------------------------------------------------------------ bounds
MaxLog == 4
MaxNow == 1
TicksPerDay == 2

\* ---------------------------------------------------------------- Optional
None == <<>>
Some(v) == <<v>>

\* ------------------------------------------------------- enums & constants
READY_TO_SUBMIT == "READY_TO_SUBMIT"
AWAITING_SEAN_INPUT == "AWAITING_SEAN_INPUT"
SUBMITTED == "SUBMITTED"
RECEIPT_CONFIRMED == "RECEIPT_CONFIRMED"
FOLLOWUP_ACTIVE == "FOLLOWUP_ACTIVE"
GC_RESPONSE_LOGGED == "GC_RESPONSE_LOGGED"
CLOSED_WON == "CLOSED_WON"
CLOSED_LOST == "CLOSED_LOST"
CLOSED_NO_RESPONSE == "CLOSED_NO_RESPONSE"

PostBidStatus ==
  { READY_TO_SUBMIT, AWAITING_SEAN_INPUT, SUBMITTED, RECEIPT_CONFIRMED,
    FOLLOWUP_ACTIVE, GC_RESPONSE_LOGGED, CLOSED_WON, CLOSED_LOST,
    CLOSED_NO_RESPONSE }

status_is_closed(s) == s \in {CLOSED_WON, CLOSED_LOST, CLOSED_NO_RESPONSE}

FollowUpType ==
  {"RECEIPT_CONFIRMATION", "STATUS_CHECK", "VALUE_TOUCH", "CLOSEOUT_REQUEST"}

\* a schedule table that lost its closeout row
FOLLOWUP_SCHEDULE_no_closeout ==
  << <<"RECEIPT_CONFIRMATION", 2>>,
     <<"STATUS_CHECK", 7>>,
     <<"VALUE_TOUCH", 14>> >>

\* a schedule table whose last offset is a month instead of four weeks
FOLLOWUP_SCHEDULE_month ==
  << <<"RECEIPT_CONFIRMATION", 2>>,
     <<"STATUS_CHECK", 7>>,
     <<"VALUE_TOUCH", 14>>,
     <<"CLOSEOUT_REQUEST", 30>> >>

FOLLOWUP_SCHEDULE ==
  << <<"RECEIPT_CONFIRMATION", 2>>,
     <<"STATUS_CHECK", 7>>,
     <<"VALUE_TOUCH", 14>>,
     <<"CLOSEOUT_REQUEST", 28>> >>

timedelta(days) == days * TicksPerDay

date(dt) == dt \div TicksPerDay

\* --------------------------------------------------------- data structures
PostBidLog(ts, status, note) == [ts |-> ts, status |-> status, note |-> note]

FollowUpRecord(followup_type, scheduled_dt) ==
  [ followup_type |-> followup_type,
    scheduled_dt  |-> scheduled_dt,
    sent_dt       |-> None,
    gc_responded  |-> FALSE,
    response_note |-> None ]

is_complete(f) == f.sent_dt # None

PostBidRecord ==
  [ submission_dt          |-> None,
    status                 |-> READY_TO_SUBMIT,
    submission_proof_ref   |-> None,
    awaiting_sean_question |-> None,
    awaiting_sean_deadline |-> None,
    followups              |-> <<>>,
    last_gc_response       |-> None,
    gc_response_notes      |-> <<>>,
    close_dt               |-> None,
    loss_reason            |-> None,
    winning_sub            |-> None,
    winning_price          |-> None,
    award_amount           |-> None,
    close_notes            |-> None,
    logs                   |-> <<>> ]

is_submitted(b) == b.submission_dt # None

is_closed(b) == status_is_closed(b.status)

\* index of the first incomplete follow-up, 0 for None
next_followup(b) ==
  LET incomplete == {i \in DOMAIN b.followups : ~is_complete(b.followups[i])}
  IN  IF incomplete = {} THEN 0
      ELSE CHOOSE i \in incomplete : \A j \in incomplete : i <= j

\* index of the first follow-up of the given type, 0 for None
get_followup_by_type(b, followup_type) ==
  LET matches == {i \in DOMAIN b.followups :
                    b.followups[i].followup_type = followup_type}
  IN  IF matches = {} THEN 0
      ELSE CHOOSE i \in matches : \A j \in matches : i <= j

\* ------------------------------------------------------- state transitions
Ok(b) == [bid |-> b, err |-> "ok"]
Raise(b, e) == [bid |-> b, err |-> e]

\* log_status writing the entry before the status changes
log_status_stale(b, status, note) ==
  [b EXCEPT !.status = status,
            !.logs = Append(@, PostBidLog(now, b.status, note))]

\* log_status skipping the entry when the status does not change
log_status_dedupe(b, status, note) ==
  IF b.status = status THEN b
  ELSE [b EXCEPT !.status = status,
                 !.logs = Append(@, PostBidLog(now, status, note))]

log_status(b, status, note) ==
  [b EXCEPT !.status = status,
            !.logs = Append(@, PostBidLog(now, status, note))]

mark_awaiting_sean(b, question, deadline) ==
  IF is_submitted(b) THEN Raise(b, "AlreadySubmitted")
  ELSE Ok(log_status(
            [b EXCEPT !.awaiting_sean_question = Some(question),
                      !.awaiting_sean_deadline = deadline],
            AWAITING_SEAN_INPUT, <<"Blocked", question>>))

\* mark_ready_to_submit without its submission guard
mark_ready_to_submit_unguarded(b, note) ==
  Ok(log_status(
       [b EXCEPT !.awaiting_sean_question = None,
                 !.awaiting_sean_deadline = None],
       READY_TO_SUBMIT, <<note>>))

mark_ready_to_submit(b, note) ==
  IF is_submitted(b) THEN Raise(b, "AlreadySubmitted")
  ELSE Ok(log_status(
            [b EXCEPT !.awaiting_sean_question = None,
                      !.awaiting_sean_deadline = None],
            READY_TO_SUBMIT, <<note>>))

\* mark_submitted's effects with the SUBMITTED entry left out of the log
initialize_submission_single_log(b, submission_dt, proof_ref) ==
  LET b1 == [b EXCEPT !.submission_dt = Some(submission_dt),
                      !.submission_proof_ref = Some(proof_ref),
                      !.awaiting_sean_question = None,
                      !.awaiting_sean_deadline = None]
      b2 == [b1 EXCEPT !.followups = @ \o
               [i \in DOMAIN FOLLOWUP_SCHEDULE |->
                  FollowUpRecord(FOLLOWUP_SCHEDULE[i][1],
                     submission_dt + timedelta(FOLLOWUP_SCHEDULE[i][2]))]]
  IN  log_status(b2, FOLLOWUP_ACTIVE,
         <<"Follow-up schedule initialized", Len(b2.followups)>>)

\* the effects of mark_submitted once its guard has passed
initialize_submission(b, submission_dt, proof_ref) ==
  LET b1 == [b EXCEPT !.submission_dt = Some(submission_dt),
                      !.submission_proof_ref = Some(proof_ref),
                      !.awaiting_sean_question = None,
                      !.awaiting_sean_deadline = None]
      b2 == [b1 EXCEPT !.followups = @ \o
               [i \in DOMAIN FOLLOWUP_SCHEDULE |->
                  FollowUpRecord(FOLLOWUP_SCHEDULE[i][1],
                     submission_dt + timedelta(FOLLOWUP_SCHEDULE[i][2]))]]
      b3 == log_status(b2, SUBMITTED, <<"Submitted with proof", proof_ref>>)
  IN  log_status(b3, FOLLOWUP_ACTIVE,
         <<"Follow-up schedule initialized", Len(b3.followups)>>)

\* mark_submitted without its idempotency guard
mark_submitted_unguarded(b, submission_dt, proof_ref) ==
  Ok(initialize_submission(b, submission_dt, proof_ref))

mark_submitted(b, submission_dt, proof_ref) ==
  IF is_submitted(b) THEN Raise(b, "AlreadySubmitted")
  ELSE Ok(initialize_submission(b, submission_dt, proof_ref))

\* mark_receipt_confirmed without its submission guard
mark_receipt_confirmed_unguarded(b, note) ==
  Ok(log_status(b, RECEIPT_CONFIRMED, <<note>>))

mark_receipt_confirmed(b, note) ==
  IF ~is_submitted(b) THEN Raise(b, "NotSubmitted")
  ELSE Ok(log_status(b, RECEIPT_CONFIRMED, <<note>>))

\* mark_followup_sent looking the record up before the submission check
mark_followup_sent_lookup_first(b, followup_type, sent_dt) ==
  LET followup == get_followup_by_type(b, followup_type)
  IN  IF followup = 0 THEN Raise(b, "UnknownFollowUpKind")
      ELSE IF ~is_submitted(b) THEN Raise(b, "NotSubmitted")
      ELSE IF is_complete(b.followups[followup]) THEN Raise(b, "AlreadySent")
      ELSE Ok(log_status(
             [b EXCEPT !.followups[followup].sent_dt =
                         IF sent_dt # None THEN sent_dt ELSE Some(now)],
             FOLLOWUP_ACTIVE, <<"Follow-up sent", followup_type>>))

\* mark_followup_sent without its already-sent check
mark_followup_sent_resend(b, followup_type, sent_dt) ==
  IF ~is_submitted(b) THEN Raise(b, "NotSubmitted")
  ELSE
    LET followup == get_followup_by_type(b, followup_type)
    IN  IF followup = 0 THEN Raise(b, "UnknownFollowUpKind")
        ELSE Ok(log_status(
               [b EXCEPT !.followups[followup].sent_dt =
                           IF sent_dt # None THEN sent_dt ELSE Some(now)],
               FOLLOWUP_ACTIVE, <<"Follow-up sent", followup_type>>))

\* mark_followup_sent writing the sent timestamp before the already-sent check
mark_followup_sent_write_first(b, followup_type, sent_dt) ==
  IF ~is_submitted(b) THEN Raise(b, "NotSubmitted")
  ELSE
    LET followup == get_followup_by_type(b, followup_type)
    IN  IF followup = 0 THEN Raise(b, "UnknownFollowUpKind")
        ELSE
          LET b1 == [b EXCEPT !.followups[followup].sent_dt =
                                IF sent_dt # None THEN sent_dt ELSE Some(now)]
          IN  IF is_complete(b.followups[followup])
              THEN Raise(b1, "AlreadySent")
              ELSE Ok(log_status(b1, FOLLOWUP_ACTIVE,
                                 <<"Follow-up sent", followup_type>>))

\* mark_followup_sent moving the record's schedule to the time it was sent
mark_followup_sent_reschedule(b, followup_type, sent_dt) ==
  IF ~is_submitted(b) THEN Raise(b, "NotSubmitted")
  ELSE
    LET followup == get_followup_by_type(b, followup_type)
        sent == IF sent_dt # None THEN sent_dt ELSE Some(now)
    IN  IF followup = 0 THEN Raise(b, "UnknownFollowUpKind")
        ELSE IF is_complete(b.followups[followup]) THEN Raise(b, "AlreadySent")
        ELSE Ok(log_status(
               [b EXCEPT !.followups[followup].sent_dt = sent,
                         !.followups[followup].scheduled_dt = sent[1]],
               FOLLOWUP_ACTIVE, <<"Follow-up sent", followup_type>>))

mark_followup_sent(b, followup_type, sent_dt) ==
  IF ~is_submitted(b) THEN Raise(b, "NotSubmitted")
  ELSE
    LET followup == get_followup_by_type(b, followup_type)
    IN  IF followup = 0 THEN Raise(b, "UnknownFollowUpKind")
        ELSE IF is_complete(b.followups[followup]) THEN Raise(b, "AlreadySent")
        ELSE Ok(log_status(
               [b EXCEPT !.followups[followup].sent_dt =
                           IF sent_dt # None THEN sent_dt ELSE Some(now)],
               FOLLOWUP_ACTIVE, <<"Follow-up sent", followup_type>>))

\* record_gc_response keeping only the latest note in the history
record_gc_response_overwrite(b, response_type, note) ==
  IF ~is_submitted(b) THEN Raise(b, "NotSubmitted")
  ELSE
    LET b1 == [b EXCEPT !.last_gc_response = Some(response_type),
                        !.gc_response_notes = << <<date(now), note>> >>]
    IN  Ok(log_status(b1, GC_RESPONSE_LOGGED, <<response_type, note>>))

record_gc_response(b, response_type, note) ==
  IF ~is_submitted(b) THEN Raise(b, "NotSubmitted")
  ELSE
    LET b1 == [b EXCEPT !.last_gc_response = Some(response_type),
                        !.gc_response_notes = Append(@, <<date(now), note>>)]
        next_fu == next_followup(b1)
        b2 == IF /\ next_fu # 0
                 /\ is_complete(b1.followups[next_fu])
                 /\ ~b1.followups[next_fu].gc_responded
              THEN [b1 EXCEPT !.followups[next_fu].gc_responded = TRUE,
                              !.followups[next_fu].response_note = Some(note)]
              ELSE b1
    IN  Ok(log_status(b2, GC_RESPONSE_LOGGED, <<response_type, note>>))

close_bid_won(b, award_amount, note) ==
  IF is_closed(b) THEN Raise(b, "AlreadyClosed")
  ELSE Ok(log_status(
            [b EXCEPT !.close_dt = Some(now),
                      !.award_amount = Some(award_amount),
                      !.close_notes = note],
            CLOSED_WON, <<"WON at", award_amount>>))

close_bid_lost(b, reason, winning_sub, winning_price, note) ==
  IF is_closed(b) THEN Raise(b, "AlreadyClosed")
  ELSE Ok(log_status(
            [b EXCEPT !.close_dt = Some(now),
                      !.loss_reason = Some(reason),
                      !.winning_sub = winning_sub,
                      !.winning_price = winning_price,
                      !.close_notes = note],
            CLOSED_LOST,
            <<"LOST", reason>>
              \o (IF winning_sub # None THEN winning_sub ELSE <<>>)
              \o (IF winning_price # None /\ winning_price # Some(0)
                  THEN winning_price ELSE <<>>)))

DefaultNoResponseNote == "GC never responded after full follow-up sequence"

close_bid_no_response(b, note) ==
  IF is_closed(b) THEN Raise(b, "AlreadyClosed")
  ELSE
    LET close_notes == IF note # None /\ note # Some("")
                       THEN note ELSE Some(DefaultNoResponseNote)
    IN  Ok(log_status(
            [b EXCEPT !.close_dt = Some(now), !.close_notes = close_notes],
            CLOSED_NO_RESPONSE, close_notes))

\* ------------------------------------------------------------ input domains
Questions == {"Choose lane"}
Deadlines == {None, Some(1)}
UnblockNotes == {"Ready to submit"}
SubmissionTimes == {0, 1}
ProofRefs == {"screenshot"}
ReceiptNotes == {"GC confirmed receipt"}
SentTimes == {None, Some(1)}
GCResponseType == {"REVIEWING"}
ResponseNotes == {"note"}
LossReason == {"PRICE"}
WinningSubs == {None, Some("Competitor Steel Co")}
WinningPrices == {Some(125000)}
AwardAmounts == {130000}
OutcomeNotes == {None}
CloseNotes == {None, Some("closing note")}

\* ------------------------------------------------------------------ actions
Init ==
  /\ bid = PostBidRecord
  /\ now = 0
  /\ op = "new"
  /\ args = <<>>
  /\ err = "ok"

\* one call of a transition function: its result replaces the record
Call(name, a, r) ==
  /\ Len(r.bid.logs) <= MaxLog
  /\ bid' = r.bid
  /\ err' = r.err
  /\ op' = name
  /\ args' = a
  /\ UNCHANGED now

Block ==
  \E q \in Questions, d \in Deadlines :
    Call("block", <<q, d>>, mark_awaiting_sean(bid, q, d))

Unblock ==
  \E n \in UnblockNotes :
    Call("unblock", <<n>>, mark_ready_to_submit(bid, n))

Submit ==
  \E t \in SubmissionTimes, p \in ProofRefs :
    Call("submit", <<t, p>>, mark_submitted(bid, t, p))

ConfirmReceipt ==
  \E n \in ReceiptNotes :
    Call("confirmReceipt", <<n>>, mark_receipt_confirmed(bid, n))

SendFollowUp ==
  \E k \in FollowUpType, s \in SentTimes :
    Call("sendFollowUp", <<k, s>>, mark_followup_sent(bid, k, s))

RecordGCResponse ==
  \E r \in GCResponseType, n \in ResponseNotes :
    Call("recordGCResponse", <<r, n>>, record_gc_response(bid, r, n))

CloseWon ==
  \E a \in AwardAmounts, n \in OutcomeNotes :
    Call("closeWon", <<a, n>>, close_bid_won(bid, a, n))

CloseLost ==
  \E r \in LossReason, s \in WinningSubs, p \in WinningPrices,
     n \in OutcomeNotes :
    Call("closeLost", <<r, s, p, n>>, close_bid_lost(bid, r, s, p, n))

CloseNoResponse ==
  \E n \in CloseNotes :
    Call("closeNoResponse", <<n>>, close_bid_no_response(bid, n))

\* the wall clock advances between calls
Tick ==
  /\ now < MaxNow
  /\ now' = now + 1
  /\ op' = "tick"
  /\ args' = <<>>
  /\ err' = "ok"
  /\ UNCHANGED bid

Next ==
  \/ Block
  \/ Unblock
  \/ Submit
  \/ ConfirmReceipt
  \/ SendFollowUp
  \/ RecordGCResponse
  \/ CloseWon
  \/ CloseLost
  \/ CloseNoResponse
  \/ Tick

Spec == Init /\ [][Next]_vars

\* ---------------------------------------------------------------- vocabulary
CloseOps == {"closeWon", "closeLost", "closeNoResponse"}

TransitionOps ==
  {"block", "unblock", "submit", "confirmReceipt", "sendFollowUp",
   "recordGCResponse"} \cup CloseOps

\* some close has succeeded on the bid: every close writes a closed-* entry
EverClosed(b) ==
  \E i \in DOMAIN b.logs : status_is_closed(b.logs[i].status)

CloseFields(b) ==
  <<b.close_dt, b.loss_reason, b.winning_sub, b.winning_price,
    b.award_amount, b.close_notes>>

\* ------------------------------------------------------------------- C1
\* C1: after a close has succeeded, every later call of a transition
\* operation fails with AlreadyClosed and leaves the whole record (status,
\* close fields, follow-ups, response history, audit log) as it was.
C1_ClosedIsTerminal ==
  [][ (EverClosed(bid) /\ op' \in TransitionOps)
        => (err' = "AlreadyClosed" /\ bid' = bid) ]_vars

\* ------------------------------------------------------------------- C2
\* C2: a submit call on a bid whose submission timestamp is set fails with
\* AlreadySubmitted and leaves the submission timestamp, proof reference,
\* follow-up records, status and audit log unchanged.
C2_SecondSubmitRejected ==
  [][ (is_submitted(bid) /\ op' = "submit")
        => /\ err' = "AlreadySubmitted"
           /\ bid'.submission_dt = bid.submission_dt
           /\ bid'.submission_proof_ref = bid.submission_proof_ref
           /\ bid'.followups = bid.followups
           /\ bid'.status = bid.status
           /\ bid'.logs = bid.logs ]_vars

\* a second submit, with another timestamp, was rejected after other
\* operations had run on the submitted bid
C2_Witness ==
  /\ op = "submit"
  /\ err = "AlreadySubmitted"
  /\ bid.submission_dt # Some(args[1])
  /\ Len(bid.logs) > 2

\* ------------------------------------------------------------------- C3
\* C3: after submit(bid, t, proof) succeeds from ready-to-submit or
\* awaiting-input the bid holds exactly the four follow-up records
\* receipt-confirmation, status-check, value-touch, closeout-request, scheduled
\* at t+2, t+7, t+14 and t+28 days, none sent, none responded; the submission
\* timestamp is t, question and deadline are cleared, status is followup-active.
C3_Post(b, t) ==
  /\ Len(b.followups) = 4
  /\ b.followups[1].followup_type = "RECEIPT_CONFIRMATION"
  /\ b.followups[2].followup_type = "STATUS_CHECK"
  /\ b.followups[3].followup_type = "VALUE_TOUCH"
  /\ b.followups[4].followup_type = "CLOSEOUT_REQUEST"
  /\ b.followups[1].scheduled_dt = t + 2 * TicksPerDay
  /\ b.followups[2].scheduled_dt = t + 7 * TicksPerDay
  /\ b.followups[3].scheduled_dt = t + 14 * TicksPerDay
  /\ b.followups[4].scheduled_dt = t + 28 * TicksPerDay
  /\ \A i \in 1..4 : /\ b.followups[i].sent_dt = None
                     /\ b.followups[i].gc_responded = FALSE
  /\ b.submission_dt = Some(t)
  /\ b.awaiting_sean_question = None
  /\ b.awaiting_sean_deadline = None
  /\ b.status = FOLLOWUP_ACTIVE

C3_SubmitCreatesSchedule ==
  [][ ( /\ op' = "submit"
        /\ err' = "ok"
        /\ bid.status \in {READY_TO_SUBMIT, AWAITING_SEAN_INPUT} )
        => C3_Post(bid', args'[1]) ]_vars

\* a submit at t = 1 has just succeeded on a bid that was blocked
C3_Witness ==
  /\ op = "submit"
  /\ err = "ok"
  /\ args[1] = 1
  /\ Len(bid.logs) = 3
  /\ bid.logs[1].status = AWAITING_SEAN_INPUT
  /\ Len(bid.followups) = 4

\* ------------------------------------------------------------------- C4
\* C4: every transition operation that fails leaves the whole bid record
\* identical to its state before the call.
C4_FailureChangesNothing ==
  [][ (op' \in TransitionOps /\ err' # "ok") => bid' = bid ]_vars

\* a follow-up was re-sent and rejected on a bid with a sent record
C4_Witness ==
  /\ op = "sendFollowUp"
  /\ err = "AlreadySent"
  /\ \E i \in DOMAIN bid.followups : is_complete(bid.followups[i])

\* ------------------------------------------------------------------- C5
\* C5: a successful transition changes the status only along an edge of the
\* state-machine table, and a call whose (status, operation) pair is not an
\* edge fails and leaves the status unchanged.
PostSubmissionOpen ==
  {SUBMITTED, RECEIPT_CONFIRMED, FOLLOWUP_ACTIVE, GC_RESPONSE_LOGGED}

C5_Edge(s, o, s2) ==
  \/ o = "block" /\ s = READY_TO_SUBMIT /\ s2 = AWAITING_SEAN_INPUT
  \/ o = "unblock" /\ s = AWAITING_SEAN_INPUT /\ s2 = READY_TO_SUBMIT
  \/ o = "submit" /\ s \in {READY_TO_SUBMIT, AWAITING_SEAN_INPUT}
       /\ s2 = FOLLOWUP_ACTIVE
  \/ o = "confirmReceipt" /\ s = FOLLOWUP_ACTIVE /\ s2 = RECEIPT_CONFIRMED
  \/ o = "sendFollowUp" /\ s \in PostSubmissionOpen /\ s2 = FOLLOWUP_ACTIVE
  \/ o = "recordGCResponse"
       /\ s \in {SUBMITTED, RECEIPT_CONFIRMED, FOLLOWUP_ACTIVE}
       /\ s2 = GC_RESPONSE_LOGGED
  \/ o = "closeWon" /\ s \in PostSubmissionOpen /\ s2 = CLOSED_WON
  \/ o = "closeLost" /\ s \in PostSubmissionOpen /\ s2 = CLOSED_LOST
  \/ o = "closeNoResponse" /\ s \in PostSubmissionOpen
       /\ s2 = CLOSED_NO_RESPONSE

C5_OnlyTableEdges ==
  [][ op' \in TransitionOps
        => /\ err' = "ok" => C5_Edge(bid.status, op', bid'.status)
           /\ (\A s2 \in PostBidStatus : ~C5_Edge(bid.status, op', s2))
                => (err' # "ok" /\ bid'.status = bid.status) ]_vars

\* ------------------------------------------------------------------- C6
\* C6: at most one close call succeeds on a bid: the audit log never holds
\* more than one closed-* entry, and the close fields written by the first
\* close are never overwritten by a later close.
C6_AtMostOneClose ==
  /\ [](Cardinality({i \in DOMAIN bid.logs :
                       status_is_closed(bid.logs[i].status)}) <= 1)
  /\ [][ (EverClosed(bid) /\ op' \in CloseOps)
           => (err' # "ok" /\ CloseFields(bid') = CloseFields(bid)) ]_vars

\* ------------------------------------------------------------------- C7
\* C7: at most one outcome data group (award; loss; no-response note) is
\* populated and it matches the closed status: award amount is set only when
\* the status is closed-won, loss reason only when it is closed-lost.
C7_OneOutcomeGroup ==
  /\ ~(bid.award_amount # None /\ bid.loss_reason # None)
  /\ bid.award_amount # None => bid.status = CLOSED_WON
  /\ bid.loss_reason # None => bid.status = CLOSED_LOST
  /\ bid.status = CLOSED_NO_RESPONSE
       => (bid.award_amount = None /\ bid.loss_reason = None)

\* ------------------------------------------------------------------- C8
\* C8: a bid whose status is ready-to-submit or awaiting-input has no
\* submission timestamp, and a bid whose status is submitted,
\* receipt-confirmed, followup-active or gc-response-logged has one.
C8_StatusAgreesWithSubmission ==
  /\ bid.status \in {READY_TO_SUBMIT, AWAITING_SEAN_INPUT}
       => bid.submission_dt = None
  /\ bid.status \in PostSubmissionOpen => bid.submission_dt # None

\* a bid that was blocked, then submitted, and has had its receipt confirmed
C8_Witness ==
  /\ bid.status = RECEIPT_CONFIRMED
  /\ bid.submission_dt # None
  /\ bid.logs[1].status = AWAITING_SEAN_INPUT

\* ------------------------------------------------------------------- C9
\* C9: the follow-up collection is empty while the submission timestamp is
\* unset and otherwise holds exactly one record per kind in schedule order;
\* once created no record is added or removed and no record's kind or
\* scheduled timestamp changes.
C9_Shape(b) ==
  IF b.submission_dt = None
  THEN b.followups = <<>>
  ELSE /\ Len(b.followups) = 4
       /\ b.followups[1].followup_type = "RECEIPT_CONFIRMATION"
       /\ b.followups[2].followup_type = "STATUS_CHECK"
       /\ b.followups[3].followup_type = "VALUE_TOUCH"
       /\ b.followups[4].followup_type = "CLOSEOUT_REQUEST"

C9_FollowUpsFixed ==
  /\ []C9_Shape(bid)
  /\ [][ bid.followups # <<>>
           => /\ Len(bid'.followups) = Len(bid.followups)
              /\ \A i \in DOMAIN bid.followups :
                   /\ bid'.followups[i].followup_type =
                        bid.followups[i].followup_type
                   /\ bid'.followups[i].scheduled_dt =
                        bid.followups[i].scheduled_dt ]_vars

\* a follow-up has been sent on a submitted bid
C9_Witness ==
  /\ op = "sendFollowUp"
  /\ err = "ok"
  /\ Len(bid.followups) = 4
  /\ \E i \in DOMAIN bid.followups : is_complete(bid.followups[i])

\* ------------------------------------------------------------------ C10
\* C10: once the submission timestamp is set it never changes, the status is
\* never again ready-to-submit or awaiting-input, and block and unblock fail.
C10_NoReturnAfterSubmission ==
  [][ is_submitted(bid)
        => /\ bid'.submission_dt = bid.submission_dt
           /\ bid'.status \notin {READY_TO_SUBMIT, AWAITING_SEAN_INPUT}
           /\ op' \in {"block", "unblock"} => err' # "ok" ]_vars

\* block was called on a submitted bid and rejected
C10_Witness ==
  /\ op = "block"
  /\ err = "AlreadySubmitted"
  /\ is_submitted(bid)

\* ------------------------------------------------------------------ C11
\* C11: every successful transition appends exactly one audit-log entry whose
\* status is the bid's new status, except submit, which appends two (submitted,
\* then followup-active); a failed operation appends none; the log after any
\* step is an extension of the log before it.
C11_LogGrowth(b, b2, n) ==
  /\ Len(b2.logs) = Len(b.logs) + n
  /\ SubSeq(b2.logs, 1, Len(b.logs)) = b.logs
  /\ b2.logs[Len(b2.logs)].status = b2.status

C11_AuditLogAppendOnly ==
  [][ IF op' \in TransitionOps /\ err' = "ok"
      THEN IF op' = "submit"
           THEN /\ C11_LogGrowth(bid, bid', 2)
                /\ bid'.logs[Len(bid.logs) + 1].status = SUBMITTED
                /\ bid'.logs[Len(bid.logs) + 2].status = FOLLOWUP_ACTIVE
           ELSE C11_LogGrowth(bid, bid', 1)
      ELSE bid'.logs = bid.logs ]_vars

\* a follow-up was sent on a bid that was blocked and then submitted: the log
\* holds the block entry, the two submit entries and the send entry
C11_Witness ==
  /\ op = "sendFollowUp"
  /\ err = "ok"
  /\ Len(bid.logs) = 4
  /\ bid.logs[1].status = AWAITING_SEAN_INPUT
  /\ bid.logs[2].status = SUBMITTED

\* ------------------------------------------- the example usage (__main__)
\* The driver of the source runs one fixed sequence of calls on a fresh bid;
\* an exception ends it.  The last operation is the driver's position, and
\* the clock may advance between two calls.
ScriptStep(prev, name, a, r) ==
  /\ op = prev
  /\ err = "ok"
  /\ bid' = r.bid
  /\ err' = r.err
  /\ op' = name
  /\ args' = a
  /\ UNCHANGED now

ExampleBlock ==
  \E q \in Questions, d \in Deadlines :
    ScriptStep("new", "block", <<q, d>>, mark_awaiting_sean(bid, q, d))

ExampleUnblock ==
  \E n \in UnblockNotes :
    ScriptStep("block", "unblock", <<n>>, mark_ready_to_submit(bid, n))

ExampleSubmit ==
  \E t \in SubmissionTimes, p \in ProofRefs :
    ScriptStep("unblock", "submit", <<t, p>>, mark_submitted(bid, t, p))

ExampleSendFirst ==
  \E s \in SentTimes :
    ScriptStep("submit", "sendFollowUp", <<"RECEIPT_CONFIRMATION", s>>,
               mark_followup_sent(bid, "RECEIPT_CONFIRMATION", s))

ExampleRespond ==
  \E n \in ResponseNotes :
    ScriptStep("sendFollowUp", "recordGCResponse", <<"REVIEWING", n>>,
               record_gc_response(bid, "REVIEWING", n))

ExampleCloseLost ==
  \E s \in WinningSubs, p \in WinningPrices, n \in OutcomeNotes :
    ScriptStep("recordGCResponse", "closeLost", <<"PRICE", s, p, n>>,
               close_bid_lost(bid, "PRICE", s, p, n))

ExampleWait ==
  /\ now < MaxNow
  /\ now' = now + 1
  /\ UNCHANGED <<bid, op, args, err>>

ExampleNext ==
  \/ ExampleBlock
  \/ ExampleUnblock
  \/ ExampleSubmit
  \/ ExampleSendFirst
  \/ ExampleRespond
  \/ ExampleCloseLost
  \/ ExampleWait

ExampleSpec == Init /\ [][ExampleNext]_vars

\* ------------------------------------------------------------------ C12
\* C12: from a fresh bid, block, unblock, submit, sendFollowUp(receipt-
\* confirmation), recordGCResponse(REVIEWING), close(lost, PRICE) each succeed
\* with statuses awaiting-input, ready-to-submit, followup-active,
\* followup-active, gc-response-logged, closed-lost; the log then holds exactly
\* the 7 entries awaiting-input, ready-to-submit, submitted, followup-active,
\* followup-active, gc-response-logged, closed-lost, the response history has
\* length 1 and the close timestamp is set.
C12_ExampleScenario ==
  /\ err = "ok"
  /\ op = "new" => (bid.status = READY_TO_SUBMIT /\ bid.logs = <<>>)
  /\ op = "block" => bid.status = AWAITING_SEAN_INPUT
  /\ op = "unblock" => bid.status = READY_TO_SUBMIT
  /\ op = "submit" => bid.status = FOLLOWUP_ACTIVE
  /\ op = "sendFollowUp" => bid.status = FOLLOWUP_ACTIVE
  /\ op = "recordGCResponse" => bid.status = GC_RESPONSE_LOGGED
  /\ op = "closeLost"
       => /\ bid.status = CLOSED_LOST
          /\ [i \in DOMAIN bid.logs |-> bid.logs[i].status] =
               << AWAITING_SEAN_INPUT, READY_TO_SUBMIT, SUBMITTED,
                  FOLLOWUP_ACTIVE, FOLLOWUP_ACTIVE, GC_RESPONSE_LOGGED,
                  CLOSED_LOST >>
          /\ Len(bid.gc_response_notes) = 1
          /\ bid.close_dt # None

\* the driver has run to its last call
C12_Witness ==
  /\ op = "closeLost"
  /\ err = "ok"
  /\ Len(bid.logs) = 7

\* ------------------------------------------------------------------ C13
\* C13: sendFollowUp(bid, kind) on a submitted bid whose record of that kind
\* is unsent sets the sent timestamp of that record only (the given one, or
\* now) and the status to followup-active; for a sent record it fails with
\* AlreadySent.  A sent timestamp never changes again, and the successful
\* sends of a bid are as many as its sent records, at most four.
C13_RecordOf(b, kind) ==
  CHOOSE i \in DOMAIN b.followups : b.followups[i].followup_type = kind

C13_SendCount(b) ==
  Cardinality({i \in DOMAIN b.logs : b.logs[i].note[1] = "Follow-up sent"})

C13_SentCount(b) ==
  Cardinality({i \in DOMAIN b.followups : b.followups[i].sent_dt # None})

C13_SendOncePerKind ==
  /\ [][ (op' = "sendFollowUp" /\ is_submitted(bid))
           => LET i == C13_RecordOf(bid, args'[1])
                  sent == IF args'[2] # None THEN args'[2] ELSE Some(now)
              IN  IF bid.followups[i].sent_dt = None
                  THEN /\ err' = "ok"
                       /\ bid'.followups =
                            [bid.followups EXCEPT ![i].sent_dt = sent]
                       /\ bid'.status = FOLLOWUP_ACTIVE
                  ELSE err' = "AlreadySent" ]_vars
  /\ [][ \A i \in DOMAIN bid.followups :
           bid.followups[i].sent_dt # None
             => bid'.followups[i].sent_dt = bid.followups[i].sent_dt ]_vars
  /\ [](C13_SendCount(bid) = C13_SentCount(bid) /\ C13_SendCount(bid) <= 4)

\* a kind was sent, another operation ran, and the kind's re-send was rejected
C13_Witness ==
  /\ op = "sendFollowUp"
  /\ err = "AlreadySent"
  /\ C13_SentCount(bid) = 1
  /\ Len(bid.logs) = 4

\* ------------------------------------------------------------------ C14
\* C14: when a submitted bid has a follow-up record that is sent and not yet
\* marked responded, a successful recordGCResponse(type, note) sets 'GC
\* responded' on a sent record and attaches the note to it; 'GC responded' is
\* never set on a record that has not been sent.
C14_AwaitingReply(b) ==
  {i \in DOMAIN b.followups :
     is_complete(b.followups[i]) /\ ~b.followups[i].gc_responded}

C14_ResponseLinkedToTouchpoint ==
  /\ [][ ( /\ op' = "recordGCResponse"
           /\ err' = "ok"
           /\ C14_AwaitingReply(bid) # {} )
           => \E i \in C14_AwaitingReply(bid) :
                /\ bid'.followups[i].gc_responded
                /\ bid'.followups[i].response_note = Some(args'[2]) ]_vars
  /\ [](\A i \in DOMAIN bid.followups :
          bid.followups[i].gc_responded => is_complete(bid.followups[i]))

\* ------------------------------------------------------------------ C15
\* C15: each successful recordGCResponse appends exactly one (dated) note at
\* the end of the response history, sets the last response type to the given
\* type and the status to gc-response-logged; every other step, and every
\* failed recordGCResponse, leaves the history and the last response type
\* unchanged.
C15_ResponseHistoryAppendOnly ==
  [][ IF op' = "recordGCResponse" /\ err' = "ok"
      THEN /\ bid'.gc_response_notes =
                Append(bid.gc_response_notes, <<date(now), args'[2]>>)
           /\ bid'.last_gc_response = Some(args'[1])
           /\ bid'.status = GC_RESPONSE_LOGGED
      ELSE /\ bid'.gc_response_notes = bid.gc_response_notes
           /\ bid'.last_gc_response = bid.last_gc_response ]_vars

\* a second GC response was recorded on a bid
C15_Witness ==
  /\ op = "recordGCResponse"
  /\ err = "ok"
  /\ Len(bid.gc_response_notes) = 2

\* ------------------------------------------------------------ action queries
\* The read-only scans over a collection of bids.  A result is the sequence of
\* the hits in the order the loops append them; a bid is named by its index in
\* the collection and a follow-up record by its index in the bid's followups.
DefaultDaysThreshold == 30

\* is_overdue counting the scheduled instant itself as overdue
is_overdue_inclusive(f) == f.sent_dt = None /\ now >= f.scheduled_dt

is_overdue(f) == f.sent_dt = None /\ now > f.scheduled_dt

Indices(s) == [i \in 1..Len(s) |-> i]

overdue_followups(b) ==
  SelectSeq(Indices(b.followups), LAMBDA i : is_overdue(b.followups[i]))

days_since_submission(b) ==
  IF ~is_submitted(b) THEN None
  ELSE Some((now - b.submission_dt[1]) \div TicksPerDay)

RECURSIVE Flatten(_)
Flatten(seqs) ==
  IF seqs = <<>> THEN <<>> ELSE Head(seqs) \o Flatten(Tail(seqs))

get_overdue_followups(bids) ==
  Flatten([k \in 1..Len(bids) |->
             IF is_closed(bids[k]) THEN <<>>
             ELSE LET ov == overdue_followups(bids[k])
                  IN  [j \in 1..Len(ov) |-> <<k, ov[j]>>]])

\* due-today taking any unsent record scheduled today, not the next one
get_followups_due_today_any(bids) ==
  Flatten([k \in 1..Len(bids) |->
             IF is_closed(bids[k]) THEN <<>>
             ELSE LET due == SelectSeq(Indices(bids[k].followups),
                               LAMBDA i :
                                 /\ ~is_complete(bids[k].followups[i])
                                 /\ date(bids[k].followups[i].scheduled_dt)
                                      = date(now))
                  IN  [j \in 1..Len(due) |-> <<k, due[j]>>]])

get_followups_due_today(bids) ==
  LET today == date(now)
  IN  Flatten([k \in 1..Len(bids) |->
                 IF is_closed(bids[k]) THEN <<>>
                 ELSE LET next_fu == next_followup(bids[k])
                      IN  IF /\ next_fu # 0
                             /\ date(bids[k].followups[next_fu].scheduled_dt)
                                  = today
                          THEN << <<k, next_fu>> >>
                          ELSE <<>>])

\* needing-close with a strict age comparison
get_bids_needing_close_strict(bids, days_threshold) ==
  SelectSeq(Indices(bids),
    LAMBDA k :
      /\ ~(is_closed(bids[k]) \/ ~is_submitted(bids[k]))
      /\ LET all_sent == \A i \in DOMAIN bids[k].followups :
                           is_complete(bids[k].followups[i])
             days == days_since_submission(bids[k])
             days_old == IF days = None \/ days = Some(0) THEN 0 ELSE days[1]
         IN  all_sent /\ days_old > days_threshold)

get_bids_needing_close(bids, days_threshold) ==
  SelectSeq(Indices(bids),
    LAMBDA k :
      /\ ~(is_closed(bids[k]) \/ ~is_submitted(bids[k]))
      /\ LET all_sent == \A i \in DOMAIN bids[k].followups :
                           is_complete(bids[k].followups[i])
             days == days_since_submission(bids[k])
             days_old == IF days = None \/ days = Some(0) THEN 0 ELSE days[1]
         IN  all_sent /\ days_old >= days_threshold)

\* --------------------------------------------------- the daily action report
\* The queries run on bids in any state the transitions can leave them in, at
\* any later time.  The bid is drawn as the result of the calls submit, a set
\* of sends (in schedule order) and a close, made at one instant with a
\* submission timestamp that may lie in the past; the clock then moves on
\* between the queries.
ClockValues ==
  {0, timedelta(2), timedelta(2) + 1, timedelta(7), timedelta(7) + 1,
   timedelta(DefaultDaysThreshold)}

DaysThresholds == {2, DefaultDaysThreshold}

ScheduleOrder == [i \in DOMAIN FOLLOWUP_SCHEDULE |-> FOLLOWUP_SCHEDULE[i][1]]

RECURSIVE SendEach(_, _)
SendEach(b, kinds) ==
  IF kinds = <<>> THEN b
  ELSE SendEach(mark_followup_sent(b, Head(kinds), None).bid, Tail(kinds))

BidAfter(submitted, t, sent, closed) ==
  LET b1 == IF submitted
            THEN mark_submitted(PostBidRecord, t, "screenshot").bid
            ELSE PostBidRecord
      b2 == SendEach(b1, SelectSeq(ScheduleOrder, LAMBDA k : k \in sent))
  IN  IF closed THEN close_bid_no_response(b2, None).bid ELSE b2

\* the collection scanned: the bid, and a second bid submitted at time 0 with
\* nothing sent
all_bids == <<bid, BidAfter(TRUE, 0, {}, FALSE)>>

QueryInit ==
  /\ now \in ClockValues
  /\ \E submitted \in BOOLEAN, t \in SubmissionTimes,
        sent \in SUBSET FollowUpType, closed \in BOOLEAN :
       bid = BidAfter(submitted, t, sent, closed)
  /\ op = "new"
  /\ args = <<>>
  /\ err = "ok"

Query(name, a) ==
  /\ op' = name
  /\ args' = a
  /\ err' = "ok"
  /\ UNCHANGED <<bid, now>>

QueryOverdue == Query("overdueFollowUps", <<>>)

QueryDueToday == Query("dueToday", <<>>)

QueryNeedingClose ==
  \E days_threshold \in DaysThresholds :
    Query("needingClose", <<days_threshold>>)

QueryTick ==
  \E c \in ClockValues :
    /\ c > now
    /\ now' = c
    /\ op' = "tick"
    /\ args' = <<>>
    /\ err' = "ok"
    /\ UNCHANGED bid

QueryNext ==
  \/ QueryOverdue
  \/ QueryDueToday
  \/ QueryNeedingClose
  \/ QueryTick

QuerySpec == QueryInit /\ [][QueryNext]_vars

\* ---------------------------------------------------- the claims' vocabulary
\* whole days elapsed from instant a to instant b, and the calendar day of an
\* instant, stated without the model's date arithmetic
WholeDays(a, b) ==
  CHOOSE d \in -1..(DefaultDaysThreshold + 1) :
    d * TicksPerDay <= b - a /\ b - a < (d + 1) * TicksPerDay

CalendarDay(ts) ==
  CHOOSE d \in 0..(2 * DefaultDaysThreshold) :
    d * TicksPerDay <= ts /\ ts < (d + 1) * TicksPerDay

Range(s) == {s[i] : i \in DOMAIN s}

AllFourSent(b) ==
  /\ Len(b.followups) = 4
  /\ \A i \in 1..4 : b.followups[i].sent_dt # None

\* ------------------------------------------------------------------ C16
\* C16: NeedingClose(bids, threshold) returns exactly the bids that are not
\* closed, are submitted, have all four follow-up records sent, and whose whole
\* elapsed days since submission are at least the threshold (default 30).
C16_Eligible(b, threshold) ==
  /\ ~status_is_closed(b.status)
  /\ b.submission_dt # None
  /\ AllFourSent(b)
  /\ WholeDays(b.submission_dt[1], now) >= threshold

C17_OverduePairs ==
  {<<k, i>> \in (DOMAIN all_bids) \X (1..4) :
     /\ ~status_is_closed(all_bids[k].status)
     /\ i \in DOMAIN all_bids[k].followups
     /\ all_bids[k].followups[i].sent_dt = None
     /\ all_bids[k].followups[i].scheduled_dt < now}

C17_OverdueFollowUps ==
  op = "overdueFollowUps"
    => LET r == get_overdue_followups(all_bids)
       IN  /\ Range(r) = C17_OverduePairs
           /\ Len(r) = Cardinality(C17_OverduePairs)

\* the query runs on a closed bid that has an unsent record past its
\* scheduled time, while the second bid contributes two pairs
C17_Witness ==
  /\ op = "overdueFollowUps"
  /\ status_is_closed(bid.status)
  /\ \E i \in DOMAIN bid.followups :
       bid.followups[i].sent_dt = None /\ bid.followups[i].scheduled_dt < now
  /\ get_overdue_followups(all_bids) = << <<2, 1>>, <<2, 2>> >>

\* ------------------------------------------------------------------ C18
\* C18: DueToday returns at most one pair per bid and only for non-closed
\* bids; the record of a pair is the bid's first unsent record in schedule
\* order and its scheduled calendar date is today's.  A bid whose records are
\* all sent, or whose first unsent record is scheduled on another date,
\* contributes no pair even if a later unsent record is scheduled today.
C18_FirstUnsent(b, i) ==
  /\ i \in DOMAIN b.followups
  /\ b.followups[i].sent_dt = None
  /\ \A j \in 1..(i - 1) : b.followups[j].sent_dt # None

C18_DuePairs ==
  {<<k, i>> \in (DOMAIN all_bids) \X (1..4) :
     /\ ~status_is_closed(all_bids[k].status)
     /\ C18_FirstUnsent(all_bids[k], i)
     /\ CalendarDay(all_bids[k].followups[i].scheduled_dt) = CalendarDay(now)}

NeedSubmissionOps == {"confirmReceipt", "sendFollowUp", "recordGCResponse"}

C19_SubmissionGuards ==
  [][ /\ (op' \in NeedSubmissionOps /\ bid.submission_dt = None)
           => (err' = "NotSubmitted" /\ bid' = bid)
      /\ (op' \in NeedSubmissionOps /\ bid.submission_dt # None)
           => err' # "NotSubmitted"
      /\ ( /\ op' \in {"block", "unblock"}
           /\ bid.submission_dt # None
           /\ ~status_is_closed(bid.status) )
           => (err' = "AlreadySubmitted" /\ bid' = bid)
      /\ (op' \in {"block", "unblock"} /\ bid.submission_dt = None)
           => err' = "ok" ]_vars

\* sendFollowUp was called on a blocked, unsubmitted bid and rejected
C19_Witness ==
  /\ op = "sendFollowUp"
  /\ err = "NotSubmitted"
  /\ bid.status = AWAITING_SEAN_INPUT
  /\ bid.awaiting_sean_question # None

\* ------------------------------------------------------------------ C20
\* C20: close succeeds only on a submitted bid: a close call on a bid whose
\* submission timestamp is unset fails, and every bid with a closed-* status
\* has its submission timestamp set and holds four follow-up records.
C20_CloseOnlyAfterSubmission ==
  /\ [][ (op' \in CloseOps /\ bid.submission_dt = None) => err' # "ok" ]_vars
  /\ [](status_is_closed(bid.status)
          => (bid.submission_dt # None /\ Len(bid.followups) = 4))

\* ------------------------------------------------------------------ C21
\* C21: UnknownFollowUpKind is unreachable: a bid whose submission timestamp
\* is set holds a record of every FollowUpKind, so sendFollowUp never fails
\* with UnknownFollowUpKind; on an unsubmitted bid it fails with NotSubmitted,
\* the submission check coming before the record lookup.
C21_UnknownKindUnreachable ==
  /\ [](bid.submission_dt # None
          => \A kind \in FollowUpType :
               \E i \in DOMAIN bid.followups :
                 bid.followups[i].followup_type = kind)
  /\ [](err # "UnknownFollowUpKind")
  /\ [][ (op' = "sendFollowUp" /\ bid.submission_dt = None)
           => err' = "NotSubmitted" ]_vars

\* the last kind of the schedule was looked up and sent on a submitted bid
C21_Witness ==
  /\ op = "sendFollowUp"
  /\ args[1] = "CLOSEOUT_REQUEST"
  /\ err = "ok"
  /\ bid.followups[4].sent_dt # None

\* ------------------------------------------------------------------ C22
\* C22: in every reachable state the pending question is set if and only if
\* the status is awaiting-input, and no bid in another status keeps a pending
\* question or deadline.
C22_QuestionIffAwaiting ==
  /\ (bid.awaiting_sean_question # None <=> bid.status = AWAITING_SEAN_INPUT)
  /\ (bid.awaiting_sean_deadline # None => bid.status = AWAITING_SEAN_INPUT)

\* ------------------------------------------------------------------ C23
\* C23: between operations the audit log mirrors the status: the last entry
\* of a non-empty log carries the bid's current status, a bid with an empty
\* log is ready-to-submit, and submitted is never the status of a bid (it
\* only appears as a log entry, written inside submit and never last).
C23_LogMirrorsStatus ==
  /\ (bid.logs = <<>> => bid.status = READY_TO_SUBMIT)
  /\ (bid.logs # <<>> => bid.logs[Len(bid.logs)].status = bid.status)
  /\ bid.status # SUBMITTED
  /\ \A i \in DOMAIN bid.logs :
       bid.logs[i].status = SUBMITTED => i < Len(bid.logs)

\* submit has just written its two entries: submitted, then follow-up-active,
\* and the bid's status is the second one
C23_Witness ==
  /\ op = "submit"
  /\ err = "ok"
  /\ Len(bid.logs) >= 2
  /\ bid.logs[Len(bid.logs) - 1].status = SUBMITTED
  /\ bid.logs[Len(bid.logs)].status = FOLLOWUP_ACTIVE
  /\ bid.status = FOLLOWUP_ACTIVE

\* ------------------------------------------------------------------ C24
\* C24: in every reachable state the close timestamp is set if and only if
\* the status is closed-won, closed-lost or closed-no-response.
C24_CloseTimeIffClosed ==
  bid.close_dt # None <=> status_is_closed(bid.status)

====
